---- MODULE Spec2Model ----
(***************************************************************************)
(* The streaming completion relay of /app/api/chat/route.ts: the POST      *)
(* handler, its deadline timer and abort controller, the upstream          *)
(* streaming call and the ReadableStream that re-emits the deltas.         *)
(*                                                                         *)
(* Every variable is a function over the requests in flight: the handler   *)
(* keeps all of its state in locals of one POST invocation.  The only      *)
(* process-wide state is the upstream credential.                          *)
(*                                                                         *)
(* Environment assumptions (the together-ai SDK and the web streams        *)
(* implementation are not part of the repository):                         *)
(*  - an aborted signal makes the SDK call / the SDK iterator reject with  *)
(*    an error the handler's tests recognise as an abort (name AbortError); *)
(*  - leaving a for-await loop early (break or throw) calls the iterator's *)
(*    return(), which releases the upstream connection;                    *)
(*  - controller.enqueue and controller.close throw a TypeError when the   *)
(*    stream is no longer readable, controller.error is then a no-op, and  *)
(*    the cancel callback only runs for a stream that is still readable;   *)
(*  - delta texts are well-formed Unicode text (no lone surrogates).       *)
(***************************************************************************)
EXTENDS Integers, Sequences, FiniteSets, TLC

VARIABLES
  apiKey,        \* process.env.TOGETHER_API_KEY is configured
  pc,            \* position of POST: received, readingBody, awaitingUpstream, returned
  timer,         \* timeoutId: unset, pending, fired, cleared
  elapsed,       \* API_CALL_TIMEOUT_MS have passed since setTimeout
  deadlineAt,    \* bytes enqueued when the deadline duration elapsed, -1 before
  abortReason,   \* abortController.signal: "none" or the abort reason
  abortCalls,    \* number of effective abortController.abort calls
  upstream,      \* upstream connection: none, pending, open, aborted, failed, ended, returned
  createCalls,   \* number of client.chat.completions.create calls
  body,          \* what request.json() was given
  prepared,      \* preparedMessages handed to create
  script,        \* the chunks the upstream emits for this call
  upIdx,         \* number of chunks the read loop has been handed
  cur,           \* the chunk the loop body is about to process
  loop,          \* read loop of start(): none, awaitChunk, gotChunk, done
  exitKind,      \* how the read loop ended: none, break, exhausted, abort, error, writeError
  sstate,        \* ReadableStream state: none, readable, closed, errored
  out,           \* bytes enqueued to the caller
  termEvents,    \* observable terminations of the output stream, in order
  streamClosed,  \* the streamClosed flag of start()
  escaped,       \* an exception escaped start()
  rejectedWrites,\* enqueue attempts on a stream that was no longer readable
  writes,        \* controller.enqueue calls that succeeded
  caught,        \* the error the catch block of POST received
  resp,          \* HTTP responses returned by POST, in order
  callerGone     \* the caller has disconnected

vars == <<apiKey, pc, timer, elapsed, deadlineAt, abortReason, abortCalls,
          upstream, createCalls, body, prepared, script, upIdx, cur, loop, exitKind, sstate,
          out, termEvents, streamClosed, escaped, rejectedWrites, writes, caught,
          resp, callerGone>>

(***************************************************************************)
(* Bounds                                                                  *)
(***************************************************************************)
MaxChunks == 2
MaxMessages == 2

(***************************************************************************)
(* Text.  A string is a sequence of characters; TextEncoder.encode maps    *)
(* each character to its UTF-8 bytes.                                      *)
(***************************************************************************)
Utf8(ch) ==
  CASE ch = "H"      -> <<72>>
    [] ch = "i"      -> <<105>>
    [] ch = "U+00E9" -> <<195, 169>>
    [] OTHER         -> <<63>>

RECURSIVE encode(_)
encode(s) == IF s = <<>> THEN <<>> ELSE Utf8(Head(s)) \o encode(Tail(s))

IsPrefix(p, s) == Len(p) <= Len(s) /\ SubSeq(s, 1, Len(p)) = p

(***************************************************************************)
(* Upstream chunks: chunk.choices?.[0]?.delta?.content may be absent, ""   *)
(* or a text; chunk.choices?.[0]?.finish_reason may be set.                *)
(***************************************************************************)
Deltas == { <<"H", "i">>, <<"U+00E9">> }

Chunks ==
  [present : {TRUE}, content : Deltas \cup {<<>>}, finish : BOOLEAN] \cup
  [present : {FALSE}, content : {<<>>}, finish : BOOLEAN]

NoChunk == [present |-> FALSE, content |-> <<>>, finish |-> FALSE]

RECURSIVE SeqsUpTo(_, _)
SeqsUpTo(S, n) ==
  IF n = 0 THEN { <<>> }
  ELSE LET shorter == SeqsUpTo(S, n - 1)
       IN  shorter \cup { Append(s, x) : s \in shorter, x \in S }

Scripts == SeqsUpTo(Chunks, MaxChunks)

\* if (contentDelta)
Truthy(c) == c.present /\ c.content # <<>>

(***************************************************************************)
(* Errors.  status 0 stands for an absent status, message <<>>-like ""     *)
(* for an empty message.                                                   *)
(***************************************************************************)
SyntaxErr == [name |-> "SyntaxError", api |-> FALSE, status |-> 0,
              message |-> "Unexpected token in JSON", isError |-> TRUE]
TypeErr   == [name |-> "TypeError", api |-> FALSE, status |-> 0,
              message |-> "Cannot destructure property of null", isError |-> TRUE]
AbortErr  == [name |-> "AbortError", api |-> FALSE, status |-> 0,
              message |-> "The operation was aborted", isError |-> TRUE]
EnqueueErr == [name |-> "TypeError", api |-> FALSE, status |-> 0,
               message |-> "Invalid state: Controller is already closed",
               isError |-> TRUE]

\* nothing was caught
NoErr == [name |-> "none", api |-> FALSE, status |-> 0, message |-> "",
          isError |-> FALSE]

UpstreamErrors ==
  [name : {"Error"}, api : {TRUE}, status : {0, 401, 429},
   message : {"upstream says no", ""}, isError : {TRUE}] \cup
  { [name |-> "Error", api |-> FALSE, status |-> 0,
     message |-> "socket hang up", isError |-> TRUE],
    \* an upstream 500 whose message text is the upstream's own abort message
    [name |-> "Error", api |-> TRUE, status |-> 500,
     message |-> "The operation was aborted", isError |-> TRUE] }

(***************************************************************************)
(* Message normalisation (lines 60-101).  A text is a sequence of tokens;  *)
(* "SP" and "NL" are the whitespace tokens.  An absent or empty            *)
(* data.fileDataUrl / data.fileName is the empty sequence (both are falsy).*)
(***************************************************************************)
systemMessageContent == <<"You are Neurox, a helpful and friendly AI assistant.">>

IsSpace(t) == t \in {"SP", "NL"}

RECURSIVE trimStart(_)
trimStart(s) ==
  IF s # <<>> /\ IsSpace(Head(s)) THEN trimStart(Tail(s)) ELSE s

RECURSIVE trimEnd(_)
trimEnd(s) ==
  IF s # <<>> /\ IsSpace(s[Len(s)]) THEN trimEnd(SubSeq(s, 1, Len(s) - 1)) ELSE s

trim(s) == trimEnd(trimStart(s))

\* `\n[User has attached an image: "${fileName}". Please acknowledge this attachment.]`
fileAcknowledgement(fileName) ==
  <<"NL", "[User has attached an image: \"">> \o fileName \o
  <<"\". Please acknowledge this attachment.]">>

\* (userText.trim() + " " + fileAcknowledgement.trim()).trim()
combinedText(message) ==
  trim(trim(message.content) \o <<"SP">> \o trim(fileAcknowledgement(message.name)))

\* a filter that looks at the content only
SkipMessageContentOnly(message) == message.content = <<>>

\* if (!message.content && !message.data?.fileDataUrl) continue;
SkipMessage(message) == message.content = <<>> /\ message.url = <<>>

\* message.role === 'user' && message.data?.fileDataUrl && message.data.fileName
HasNamedFile(message) ==
  message.role = "user" /\ message.url # <<>> /\ message.name # <<>>

\* fileType?.startsWith('image/')
isImage(fileType) == fileType \in {"image/png"}

currentSdkMessage(message) ==
  IF HasNamedFile(message)
  THEN IF isImage(message.type)
       THEN [role |-> "user", content |-> combinedText(message)]
       ELSE [role |-> "user", content |-> combinedText(message)]
  ELSE [role |-> message.role, content |-> message.content]

RECURSIVE pushAll(_, _)
pushAll(acc, msgs) ==
  IF msgs = <<>> THEN acc
  ELSE pushAll(IF SkipMessage(Head(msgs)) THEN acc
               ELSE Append(acc, currentSdkMessage(Head(msgs))),
               Tail(msgs))

preparedMessages(clientMessages) ==
  pushAll(<<[role |-> "system", content |-> systemMessageContent]>>, clientMessages)

(***************************************************************************)
(* Request bodies.  json is what request.json() does with the body:        *)
(* "invalid" (rejects with a SyntaxError), "null", "scalar" (a JSON number,*)
(* string, boolean: destructuring yields undefined) or "object".  mtype is *)
(* the type of the object's messages member, items the array's elements.   *)
(***************************************************************************)
MTypes == {"undefined", "null", "emptyString", "string", "zero", "number",
           "object", "array"}

Body(json, mtype, items) == [json |-> json, mtype |-> mtype, items |-> items]

\* no body has been read yet
NoBody == Body("none", "undefined", <<>>)

userHello == [role |-> "user", content |-> <<"Hello">>, url |-> <<>>,
              name |-> <<>>, type |-> "none"]
emptyTurn == [role |-> "assistant", content |-> <<>>, url |-> <<>>,
              name |-> <<>>, type |-> "none"]
userImage == [role |-> "user", content |-> <<>>, url |-> <<"data:image/png;base64">>,
              name |-> <<"cat.png">>, type |-> "image/png"]

ItemSeqs == { <<>>, <<userHello>>, <<emptyTurn>>, <<emptyTurn, userImage>> }

\* the client messages the normaliser is exercised on
Attachments ==
  { [url |-> <<>>, name |-> <<>>, type |-> "none"],
    [url |-> <<"data:image/png;base64">>, name |-> <<"cat.png">>, type |-> "image/png"],
    [url |-> <<"data:application/pdf;base64">>, name |-> <<"doc.pdf">>,
     type |-> "application/pdf"],
    [url |-> <<"data:image/png;base64">>, name |-> <<>>, type |-> "image/png"] }

ClientMessages ==
  { [role |-> ro, content |-> co, url |-> at.url, name |-> at.name, type |-> at.type] :
      ro \in {"system", "user", "assistant"},
      co \in { <<>>, <<"Hello">>, <<"SP", "Hi", "NL">> },
      at \in Attachments }

NormBodies ==
  { Body("object", "array", items) :
      items \in SeqsUpTo(ClientMessages, MaxMessages) \ { <<>> } }

Bodies ==
  { Body("invalid", "undefined", <<>>), Body("null", "undefined", <<>>),
    Body("scalar", "undefined", <<>>) } \cup
  { Body("object", t, <<>>) : t \in MTypes \ {"array"} } \cup
  { Body("object", "array", items) : items \in ItemSeqs }

\* const { messages: clientMessages } = await request.json(): what it throws
ParseThrows(b) == b.json \in {"invalid", "null"}
ParseError(b) == IF b.json = "invalid" THEN SyntaxErr ELSE TypeErr

\* the validation without the length test
InvalidMessagesNoLength(b) == b.json = "scalar" \/ b.mtype # "array"

\* !clientMessages || !Array.isArray(clientMessages) || clientMessages.length === 0
Falsy(b) ==
  b.json = "scalar" \/ b.mtype \in {"undefined", "null", "emptyString", "zero"}

InvalidMessages(b) ==
  Falsy(b) \/ b.mtype # "array" \/ Len(b.items) = 0

(***************************************************************************)
(* Responses                                                               *)
(***************************************************************************)
Response(status, text, detail, streamed) ==
  [status |-> status, body |-> text, detail |-> detail, streamed |-> streamed]

KeyMissingResponse == Response(500, "API key not configured", "", FALSE)
InvalidBodyResponse ==
  Response(400, "Invalid request body: 'messages' array is required and cannot be empty.",
           "", FALSE)
TimeoutResponse == Response(504, "The request to the AI service timed out.", "", FALSE)
StreamResponse == Response(200, "stream", "", TRUE)

\* error.name === 'AbortError' ||
\*   (error instanceof Error && error.message.includes("The operation was aborted"))
IsAbort(error) ==
  error.name = "AbortError" \/
  (error.isError /\ error.message = "The operation was aborted")

\* the catch block of POST, lines 181-197
CatchResponse(error) ==
  IF IsAbort(error) THEN TimeoutResponse
  ELSE IF error.api
       THEN Response(IF error.status # 0 THEN error.status ELSE 500,
                     "AI Service Error: ",
                     IF error.message # "" THEN error.message
                     ELSE "An error occurred with the AI service.",
                     FALSE)
       ELSE Response(500, "Error processing request: ",
                     IF error.isError THEN error.message ELSE "Unknown server error",
                     FALSE)

\* if (timeoutId) clearTimeout(timeoutId)
clearTimeout(t) == IF t = "pending" THEN "cleared" ELSE t

(***************************************************************************)
(* The output stream.  st is the record of the stream-side state of one    *)
(* request: sstate, termEvents, streamClosed, escaped.                     *)
(***************************************************************************)
\* controller.error(e): no effect unless the stream is readable
controllerError(st) ==
  IF st.sstate = "readable"
  THEN [st EXCEPT !.sstate = "errored", !.termEvents = Append(@, "error")]
  ELSE st

\* controller.close(): throws unless the stream is readable
closeThrows(st) == st.sstate # "readable"

controllerClose(st) ==
  [st EXCEPT !.sstate = "closed", !.termEvents = Append(@, "close")]

\* closeStream without the try/catch around controller.close()
closeStreamNoTry(st) ==
  IF st.streamClosed THEN st
  ELSE IF closeThrows(st) THEN [st EXCEPT !.escaped = TRUE]
  ELSE [controllerClose(st) EXCEPT !.streamClosed = TRUE]

\* closeStream, lines 129-136
closeStream(st) ==
  IF st.streamClosed THEN st
  ELSE [(IF closeThrows(st) THEN st ELSE controllerClose(st))
          EXCEPT !.streamClosed = TRUE]

\* a catch that does not propagate the error to the stream
afterLoopCloseOnly(st, thrown, error) == closeStream(st)

\* catch and finally of start(), lines 151-160
afterLoop(st, thrown, error) ==
  closeStream(IF thrown /\ error.name # "AbortError" THEN controllerError(st) ELSE st)

\* leaving for await early calls the iterator's return()
iteratorReturn(u) == IF u = "open" THEN "returned" ELSE u

StreamState(r) ==
  [sstate |-> sstate[r], termEvents |-> termEvents[r],
   streamClosed |-> streamClosed[r], escaped |-> escaped[r]]

(***************************************************************************)
(* Initial state: every request has been received and nothing has run.     *)
(***************************************************************************)
InitWith(R, at, bodies) ==
  /\ apiKey \in BOOLEAN
  /\ pc = [r \in R |-> at]
  /\ timer = [r \in R |-> "unset"]
  /\ elapsed = [r \in R |-> FALSE]
  /\ deadlineAt = [r \in R |-> -1]
  /\ abortReason = [r \in R |-> "none"]
  /\ abortCalls = [r \in R |-> 0]
  /\ upstream = [r \in R |-> "none"]
  /\ createCalls = [r \in R |-> 0]
  /\ body \in [R -> bodies]
  /\ prepared = [r \in R |-> <<>>]
  /\ script = [r \in R |-> <<>>]
  /\ upIdx = [r \in R |-> 0]
  /\ cur = [r \in R |-> NoChunk]
  /\ loop = [r \in R |-> "none"]
  /\ exitKind = [r \in R |-> "none"]
  /\ sstate = [r \in R |-> "none"]
  /\ out = [r \in R |-> <<>>]
  /\ termEvents = [r \in R |-> <<>>]
  /\ streamClosed = [r \in R |-> FALSE]
  /\ escaped = [r \in R |-> FALSE]
  /\ rejectedWrites = [r \in R |-> 0]
  /\ writes = [r \in R |-> 0]
  /\ caught = [r \in R |-> NoErr]
  /\ resp = [r \in R |-> <<>>]
  /\ callerGone = [r \in R |-> FALSE]

InitFor(R) == InitWith(R, "received", {NoBody})

Init == InitFor({1})

Requests == DOMAIN pc

streamVars == <<script, upIdx, cur, loop, exitKind, sstate, out, termEvents,
                streamClosed, escaped, rejectedWrites, writes>>

\* one abort controller shared by all requests: abort reaches every request
abortShared(r, reason) ==
  /\ abortReason' = [q \in DOMAIN abortReason |->
                       IF abortReason[q] = "none" THEN reason ELSE abortReason[q]]
  /\ abortCalls' = [q \in DOMAIN abortCalls |->
                      IF abortReason[q] = "none" THEN abortCalls[q] + 1 ELSE abortCalls[q]]
  /\ upstream' = [q \in DOMAIN upstream |->
                    IF abortReason[q] = "none" /\ upstream[q] \in {"pending", "open"}
                    THEN "aborted" ELSE upstream[q]]

\* abortController.abort(reason): only the first call has an effect
abort(r, reason) ==
  /\ abortReason' = [abortReason EXCEPT ![r] = IF @ = "none" THEN reason ELSE @]
  /\ abortCalls' = [abortCalls EXCEPT ![r] = IF abortReason[r] = "none" THEN @ + 1 ELSE @]
  /\ upstream' = [upstream EXCEPT ![r] =
                    IF abortReason[r] = "none" /\ @ \in {"pending", "open"}
                    THEN "aborted" ELSE @]

\* a catch block that answers aborts and API errors only and falls off its
\* end for any other error
catchNoFallback(r, error) ==
  /\ timer' = [timer EXCEPT ![r] = clearTimeout(@)]
  /\ resp' = [resp EXCEPT ![r] =
                IF IsAbort(error) \/ error.api THEN Append(@, CatchResponse(error)) ELSE @]
  /\ caught' = [caught EXCEPT ![r] = error]
  /\ pc' = [pc EXCEPT ![r] = "returned"]

\* the catch block of POST: clear the timer, answer by the kind of error
catch(r, error) ==
  /\ timer' = [timer EXCEPT ![r] = clearTimeout(@)]
  /\ resp' = [resp EXCEPT ![r] = Append(@, CatchResponse(error))]
  /\ caught' = [caught EXCEPT ![r] = error]
  /\ pc' = [pc EXCEPT ![r] = "returned"]

setStream(r, st) ==
  /\ sstate' = [sstate EXCEPT ![r] = st.sstate]
  /\ termEvents' = [termEvents EXCEPT ![r] = st.termEvents]
  /\ streamClosed' = [streamClosed EXCEPT ![r] = st.streamClosed]
  /\ escaped' = [escaped EXCEPT ![r] = st.escaped]

\* a POST that starts the deadline timer before it checks the credential
POSTTimerFirst(r) ==
  /\ pc[r] = "received"
  /\ timer' = [timer EXCEPT ![r] = "pending"]
  /\ IF ~apiKey
     THEN /\ resp' = [resp EXCEPT ![r] = Append(@, KeyMissingResponse)]
          /\ pc' = [pc EXCEPT ![r] = "returned"]
     ELSE /\ pc' = [pc EXCEPT ![r] = "readingBody"]
          /\ UNCHANGED resp
  /\ UNCHANGED <<apiKey, elapsed, deadlineAt, abortReason, abortCalls, upstream, createCalls,
                 body, prepared, callerGone, caught>>
  /\ UNCHANGED streamVars

(***************************************************************************)
(* POST up to its first await: the credential check, the abort controller  *)
(* and the deadline timer (lines 32-52).                                   *)
(***************************************************************************)
POST(r) ==
  /\ pc[r] = "received"
  /\ IF ~apiKey
     THEN /\ resp' = [resp EXCEPT ![r] = Append(@, KeyMissingResponse)]
          /\ pc' = [pc EXCEPT ![r] = "returned"]
          /\ UNCHANGED timer
     ELSE /\ timer' = [timer EXCEPT ![r] = "pending"]
          /\ pc' = [pc EXCEPT ![r] = "readingBody"]
          /\ UNCHANGED resp
  /\ UNCHANGED <<apiKey, elapsed, deadlineAt, abortReason, abortCalls, upstream, createCalls,
                 body, prepared, callerGone, caught>>
  /\ UNCHANGED streamVars

(***************************************************************************)
(* API_CALL_TIMEOUT_MS pass after setTimeout; the callback of lines 44-49  *)
(* runs if the timer is still pending.                                     *)
(***************************************************************************)
DeadlineElapses(r) ==
  /\ timer[r] # "unset"
  /\ ~elapsed[r]
  /\ elapsed' = [elapsed EXCEPT ![r] = TRUE]
  /\ deadlineAt' = [deadlineAt EXCEPT ![r] = Len(out[r])]
  /\ IF timer[r] = "pending"
     THEN /\ timer' = [timer EXCEPT ![r] = "fired"]
          /\ abort(r, "API Call Timeout")
     ELSE UNCHANGED <<timer, abortReason, abortCalls, upstream>>
  /\ UNCHANGED <<apiKey, pc, createCalls, body, prepared, resp, caught, callerGone>>
  /\ UNCHANGED streamVars

(***************************************************************************)
(* request.json() settles: destructuring, validation, normalisation and    *)
(* the call of client.chat.completions.create (lines 52-116).              *)
(***************************************************************************)
BodyParsed(r, b) ==
  /\ pc[r] = "readingBody"
  /\ body' = [body EXCEPT ![r] = b]
  /\ IF ParseThrows(b)
     THEN /\ catch(r, ParseError(b))
          /\ UNCHANGED <<upstream, createCalls, prepared>>
     ELSE IF InvalidMessages(b)
     THEN /\ timer' = [timer EXCEPT ![r] = clearTimeout(@)]
          /\ resp' = [resp EXCEPT ![r] = Append(@, InvalidBodyResponse)]
          /\ pc' = [pc EXCEPT ![r] = "returned"]
          /\ UNCHANGED <<upstream, createCalls, prepared, caught>>
     ELSE /\ prepared' = [prepared EXCEPT ![r] = preparedMessages(b.items)]
          /\ createCalls' = [createCalls EXCEPT ![r] = @ + 1]
          /\ upstream' = [upstream EXCEPT ![r] =
                            IF abortReason[r] = "none" THEN "pending" ELSE "aborted"]
          /\ pc' = [pc EXCEPT ![r] = "awaitingUpstream"]
          /\ UNCHANGED <<timer, resp, caught>>
  /\ UNCHANGED <<apiKey, elapsed, deadlineAt, abortReason, abortCalls, callerGone>>
  /\ UNCHANGED streamVars

\* create resolves and the handler forgets to clear the timer
CreateResolvesNoClear(r, s) ==
  /\ pc[r] = "awaitingUpstream"
  /\ upstream[r] = "pending"
  /\ upstream' = [upstream EXCEPT ![r] = "open"]
  /\ script' = [script EXCEPT ![r] = s]
  /\ sstate' = [sstate EXCEPT ![r] = "readable"]
  /\ loop' = [loop EXCEPT ![r] = "awaitChunk"]
  /\ resp' = [resp EXCEPT ![r] = Append(@, StreamResponse)]
  /\ pc' = [pc EXCEPT ![r] = "returned"]
  /\ UNCHANGED <<apiKey, timer, elapsed, deadlineAt, abortReason, abortCalls, createCalls,
                 body, prepared, callerGone, upIdx, cur, exitKind, out, termEvents,
                 streamClosed, escaped, rejectedWrites, writes, caught>>

(***************************************************************************)
(* create resolves with the stream: the timer is cleared, the ReadableStream*)
(* is built, start() runs up to its first await and the Response is        *)
(* returned (lines 118-176).                                               *)
(***************************************************************************)
CreateResolves(r, s) ==
  /\ pc[r] = "awaitingUpstream"
  /\ upstream[r] = "pending"
  /\ upstream' = [upstream EXCEPT ![r] = "open"]
  /\ timer' = [timer EXCEPT ![r] = clearTimeout(@)]
  /\ script' = [script EXCEPT ![r] = s]
  /\ sstate' = [sstate EXCEPT ![r] = "readable"]
  /\ loop' = [loop EXCEPT ![r] = "awaitChunk"]
  /\ resp' = [resp EXCEPT ![r] = Append(@, StreamResponse)]
  /\ pc' = [pc EXCEPT ![r] = "returned"]
  /\ UNCHANGED <<apiKey, elapsed, deadlineAt, abortReason, abortCalls, createCalls, body, prepared,
                 callerGone, upIdx, cur, exitKind, out, termEvents, streamClosed,
                 escaped, rejectedWrites, writes, caught>>

\* a handler that calls create again after a rejection
CreateRejectsRetry(r, error) ==
  /\ pc[r] = "awaitingUpstream"
  /\ upstream[r] = "pending"
  /\ createCalls[r] < 2
  /\ createCalls' = [createCalls EXCEPT ![r] = @ + 1]
  /\ UNCHANGED <<apiKey, pc, timer, elapsed, deadlineAt, abortReason, abortCalls,
                 upstream, body, prepared, resp, caught, callerGone>>
  /\ UNCHANGED streamVars

\* create rejects with an upstream or transport error (lines 178-197)
CreateRejects(r, error) ==
  /\ pc[r] = "awaitingUpstream"
  /\ upstream[r] = "pending"
  /\ upstream' = [upstream EXCEPT ![r] = "failed"]
  /\ catch(r, error)
  /\ UNCHANGED <<apiKey, elapsed, deadlineAt, abortReason, abortCalls, createCalls, body, prepared,
                 callerGone>>
  /\ UNCHANGED streamVars

\* create rejects because the signal is aborted (lines 178-184)
CreateAborted(r) ==
  /\ pc[r] = "awaitingUpstream"
  /\ upstream[r] = "aborted"
  /\ catch(r, AbortErr)
  /\ UNCHANGED <<apiKey, elapsed, deadlineAt, abortReason, abortCalls, upstream, createCalls,
                 body, prepared, callerGone>>
  /\ UNCHANGED streamVars

\* the caller goes away while create is pending: POST does not observe
\* request.signal, so nothing in the handler reacts
CallerDisconnect(r) ==
  /\ pc[r] = "awaitingUpstream"
  /\ ~callerGone[r]
  /\ callerGone' = [callerGone EXCEPT ![r] = TRUE]
  /\ UNCHANGED <<apiKey, pc, timer, elapsed, deadlineAt, abortReason, abortCalls, upstream,
                 createCalls, body, prepared, resp, caught>>
  /\ UNCHANGED streamVars

\* a cancel callback that does not abort the controller
cancelNoAbort(r) ==
  /\ sstate[r] = "readable"
  /\ callerGone' = [callerGone EXCEPT ![r] = TRUE]
  /\ sstate' = [sstate EXCEPT ![r] = "closed"]
  /\ termEvents' = [termEvents EXCEPT ![r] = Append(@, "cancel")]
  /\ UNCHANGED <<abortReason, abortCalls, upstream>>
  /\ UNCHANGED <<apiKey, pc, timer, elapsed, deadlineAt, createCalls, body, prepared,
                 resp, caught, script, upIdx, cur, loop, exitKind, out, streamClosed, escaped,
                 rejectedWrites, writes>>

(***************************************************************************)
(* The consumer cancels the stream (lines 162-167): the stream closes and  *)
(* the cancel callback aborts the controller unless it is aborted already. *)
(***************************************************************************)
cancel(r) ==
  /\ sstate[r] = "readable"
  /\ callerGone' = [callerGone EXCEPT ![r] = TRUE]
  /\ sstate' = [sstate EXCEPT ![r] = "closed"]
  /\ termEvents' = [termEvents EXCEPT ![r] = Append(@, "cancel")]
  /\ IF abortReason[r] = "none"
     THEN abort(r, "Client cancelled stream")
     ELSE UNCHANGED <<abortReason, abortCalls, upstream>>
  /\ UNCHANGED <<apiKey, pc, timer, elapsed, deadlineAt, createCalls, body, prepared, resp, caught, script,
                 upIdx, cur, loop, exitKind, out, streamClosed, escaped,
                 rejectedWrites, writes>>

(***************************************************************************)
(* The read loop of start() (lines 138-160)                                *)
(***************************************************************************)
\* the iterator hands the next chunk to the loop
ChunkArrives(r) ==
  /\ loop[r] = "awaitChunk"
  /\ upstream[r] = "open"
  /\ upIdx[r] < Len(script[r])
  /\ cur' = [cur EXCEPT ![r] = script[r][upIdx[r] + 1]]
  /\ upIdx' = [upIdx EXCEPT ![r] = @ + 1]
  /\ loop' = [loop EXCEPT ![r] = "gotChunk"]
  /\ UNCHANGED <<apiKey, pc, timer, elapsed, deadlineAt, abortReason, abortCalls, upstream,
                 createCalls, body, prepared, resp, caught, callerGone, script, exitKind, sstate,
                 out, termEvents, streamClosed, escaped, rejectedWrites, writes>>

\* enqueue with the new bytes placed before the bytes already enqueued
enqueueFront(buf, contentDelta) == encode(contentDelta) \o buf

\* controller.enqueue(encoder.encode(contentDelta))
enqueue(buf, contentDelta) == buf \o encode(contentDelta)

\* a loop that never breaks
breaksNever(chunk) == FALSE

\* the chunk ends the loop: if (chunk.choices?.[0]?.finish_reason) break
breaks(chunk) == chunk.finish

\* the loop body, lines 141-149, and what follows when it leaves the loop
LoopBody(r) ==
  /\ loop[r] = "gotChunk"
  /\ LET chunk == cur[r]
         write == Truthy(chunk)
         throws == write /\ sstate[r] # "readable"
     IN  /\ out' = [out EXCEPT ![r] =
                      IF write /\ ~throws THEN enqueue(@, chunk.content) ELSE @]
         /\ rejectedWrites' = [rejectedWrites EXCEPT ![r] = IF throws THEN @ + 1 ELSE @]
         /\ writes' = [writes EXCEPT ![r] = IF write /\ ~throws THEN @ + 1 ELSE @]
         /\ IF throws
            THEN /\ upstream' = [upstream EXCEPT ![r] = iteratorReturn(@)]
                 /\ setStream(r, afterLoop(StreamState(r), TRUE, EnqueueErr))
                 /\ loop' = [loop EXCEPT ![r] = "done"]
                 /\ exitKind' = [exitKind EXCEPT ![r] = "writeError"]
            ELSE IF breaks(chunk)
            THEN /\ upstream' = [upstream EXCEPT ![r] = iteratorReturn(@)]
                 /\ setStream(r, afterLoop(StreamState(r), FALSE, AbortErr))
                 /\ loop' = [loop EXCEPT ![r] = "done"]
                 /\ exitKind' = [exitKind EXCEPT ![r] = "break"]
            ELSE /\ loop' = [loop EXCEPT ![r] = "awaitChunk"]
                 /\ UNCHANGED <<upstream, sstate, termEvents, streamClosed, escaped,
                                exitKind>>
  /\ UNCHANGED <<apiKey, pc, timer, elapsed, deadlineAt, abortReason, abortCalls, createCalls,
                 body, prepared, resp, caught, callerGone, script, upIdx, cur>>

\* the upstream sequence is exhausted: the loop ends, finally closes
UpstreamEnds(r) ==
  /\ loop[r] = "awaitChunk"
  /\ upstream[r] = "open"
  /\ upIdx[r] = Len(script[r])
  /\ upstream' = [upstream EXCEPT ![r] = "ended"]
  /\ setStream(r, afterLoop(StreamState(r), FALSE, AbortErr))
  /\ loop' = [loop EXCEPT ![r] = "done"]
  /\ exitKind' = [exitKind EXCEPT ![r] = "exhausted"]
  /\ UNCHANGED <<apiKey, pc, timer, elapsed, deadlineAt, abortReason, abortCalls, createCalls,
                 body, prepared, resp, caught, callerGone, script, upIdx, cur, out, rejectedWrites, writes>>

\* the iterator rejects with an upstream or transport error
UpstreamFails(r, error) ==
  /\ loop[r] = "awaitChunk"
  /\ upstream[r] = "open"
  /\ upstream' = [upstream EXCEPT ![r] = "failed"]
  /\ setStream(r, afterLoop(StreamState(r), TRUE, error))
  /\ loop' = [loop EXCEPT ![r] = "done"]
  /\ exitKind' = [exitKind EXCEPT ![r] = "error"]
  /\ UNCHANGED <<apiKey, pc, timer, elapsed, deadlineAt, abortReason, abortCalls, createCalls,
                 body, prepared, resp, caught, callerGone, script, upIdx, cur, out, rejectedWrites, writes>>

\* the iterator rejects because the signal was aborted
StreamAborted(r) ==
  /\ loop[r] = "awaitChunk"
  /\ upstream[r] = "aborted"
  /\ setStream(r, afterLoop(StreamState(r), TRUE, AbortErr))
  /\ loop' = [loop EXCEPT ![r] = "done"]
  /\ exitKind' = [exitKind EXCEPT ![r] = "abort"]
  /\ UNCHANGED <<apiKey, pc, timer, elapsed, deadlineAt, abortReason, abortCalls, upstream,
                 createCalls, body, prepared, resp, caught, callerGone, script, upIdx, cur, out,
                 rejectedWrites, writes>>

\* one step of one request, with the inputs drawn from the given sets
NextFor(bodies, scripts, errors) ==
  \E r \in Requests :
    \/ POST(r)
    \/ DeadlineElapses(r)
    \/ \E b \in bodies : BodyParsed(r, b)
    \/ \E s \in scripts : CreateResolves(r, s)
    \/ \E error \in errors : CreateRejects(r, error)
    \/ CreateAborted(r)
    \/ CallerDisconnect(r)
    \/ cancel(r)
    \/ ChunkArrives(r)
    \/ LoopBody(r)
    \/ UpstreamEnds(r)
    \/ \E error \in errors : UpstreamFails(r, error)
    \/ StreamAborted(r)

Next == NextFor(Bodies, Scripts, UpstreamErrors)

Spec == Init /\ [][Next]_vars

(***************************************************************************)
(* Two requests in flight at once, each with its own POST invocation.      *)
(***************************************************************************)
ConcBodies == { Body("object", "array", <<userHello>>), Body("object", "array", <<>>) }

ConcScripts ==
  { <<>>,
    << [present |-> TRUE, content |-> <<"H", "i">>, finish |-> FALSE] >>,
    << [present |-> TRUE, content |-> <<"H", "i">>, finish |-> TRUE] >> }

ConcErrors ==
  { [name |-> "Error", api |-> TRUE, status |-> 429, message |-> "upstream says no",
     isError |-> TRUE] }

ConcInit == InitFor({1, 2})

ConcNext == NextFor(ConcBodies, ConcScripts, ConcErrors)

ConcSpec == ConcInit /\ [][ConcNext]_vars

(***************************************************************************)
(* The normaliser on its own: a validated body is normalised (lines        *)
(* 60-101).                                                                *)
(***************************************************************************)
Normalize(r) ==
  /\ pc[r] = "normalizing"
  /\ prepared' = [prepared EXCEPT ![r] = preparedMessages(body[r].items)]
  /\ pc' = [pc EXCEPT ![r] = "normalized"]
  /\ UNCHANGED <<apiKey, timer, elapsed, deadlineAt, abortReason, abortCalls, upstream,
                 createCalls, body, resp, caught, callerGone>>
  /\ UNCHANGED streamVars

NormInit == InitWith({1}, "normalizing", NormBodies)

NormNext == \E r \in Requests : Normalize(r)

NormSpec == NormInit /\ [][NormNext]_vars

(***************************************************************************)
(* Scheduling.  The runtime runs a ready continuation and a due timer; the *)
(* caller's body is assumed to arrive.  Nothing obliges the upstream to    *)
(* answer, to send a chunk or to end, nor the caller to cancel.            *)
(***************************************************************************)
HandlerStep ==
  \E r \in Requests :
    \/ POST(r)
    \/ DeadlineElapses(r)
    \/ \E b \in Bodies : BodyParsed(r, b)
    \/ CreateAborted(r)
    \/ LoopBody(r)
    \/ StreamAborted(r)

FairSpec == Spec /\ WF_vars(HandlerStep)

(***************************************************************************)
(* Vocabulary of the properties                                            *)
(***************************************************************************)
\* the text of the non-empty deltas of a chunk sequence, in order
RECURSIVE deltaText(_)
deltaText(s) ==
  IF s = <<>> THEN <<>>
  ELSE (IF Truthy(Head(s)) THEN Head(s).content ELSE <<>>) \o deltaText(Tail(s))

\* the chunks up to and including the first one that carries a finish reason
RECURSIVE upToFinish(_)
upToFinish(s) ==
  IF s = <<>> THEN <<>>
  ELSE IF Head(s).finish THEN <<Head(s)>>
  ELSE <<Head(s)>> \o upToFinish(Tail(s))

\* the chunks the loop body has dealt with
processed(r) ==
  SubSeq(script[r], 1, IF loop[r] = "gotChunk" THEN upIdx[r] - 1 ELSE upIdx[r])

\* the upstream connection is in flight
InFlight(r) == upstream[r] \in {"pending", "open"}

\* the request is over for the caller: a response was returned and, when it
\* is a streamed one, the stream has terminated
Terminal(r) == pc[r] = "returned" /\ sstate[r] # "readable"

\* C1: the bytes enqueued are always the encoding of the non-empty deltas
\* processed so far, in upstream order, hence a prefix of the encoding of the
\* whole upstream text; when the loop ends normally they are the encoding of
\* all non-empty deltas up to and including the first chunk with a finish
\* reason, and the response is the 200 streamed one.
C1_RelayInOrder ==
  \A r \in Requests :
    /\ IsPrefix(out[r], encode(deltaText(script[r])))
    /\ rejectedWrites[r] = 0 => out[r] = encode(deltaText(processed(r)))
    /\ exitKind[r] \in {"break", "exhausted"} =>
         /\ out[r] = encode(deltaText(upToFinish(script[r])))
         /\ resp[r] = <<StreamResponse>>
         /\ resp[r][1].status = 200

C1_Witness ==
  \E r \in Requests :
    /\ exitKind[r] = "break"
    /\ script[r] = << [present |-> TRUE, content |-> <<"H", "i">>, finish |-> FALSE],
                      [present |-> TRUE, content |-> <<"U+00E9">>, finish |-> TRUE] >>
    /\ out[r] = <<72, 105, 195, 169>>
    /\ termEvents[r] = <<"close">>

\* C2: once the deadline has fired (necessarily with no delta emitted), the
\* response POST returns is the 504 one and it is not a streamed response.
C2_DeadlineGives504 ==
  \A r \in Requests :
    (timer[r] = "fired" /\ out[r] = <<>> /\ pc[r] = "returned") =>
       /\ resp[r] = <<TimeoutResponse>>
       /\ resp[r][1].status = 504
       /\ sstate[r] = "none"

\* C3: when the deadline duration elapses after at least one delta has been
\* streamed, the response stays the 200 one, no further delta is written
\* and the stream is never errored.
C3_DeadlineMidStream ==
  \A r \in Requests :
    deadlineAt[r] > 0 =>
       /\ resp[r] = <<StreamResponse>>
       /\ Len(out[r]) = deadlineAt[r]
       /\ sstate[r] # "errored"

\* C4: every request reaches a terminal outcome even if the upstream stalls:
\* the deadline cancels it.
C4_DeadlineTerminates == <>(\A r \in Requests : Terminal(r))

\* C5: once the caller has disconnected, the upstream connection is not in
\* flight any more, and a caller that left before a response was returned
\* is sent none.
C5_DisconnectAborts ==
  \A r \in Requests :
    callerGone[r] =>
       /\ ~InFlight(r)
       /\ ("cancel" \notin {termEvents[r][i] : i \in DOMAIN termEvents[r]} => resp[r] = <<>>)

\* C6: no terminal state has the upstream connection still in flight.
C6_NoLeakedUpstream ==
  \A r \in Requests : Terminal(r) => ~InFlight(r)

C6_Witness ==
  \E r \in Requests :
    /\ Terminal(r)
    /\ termEvents[r] = <<"cancel">>
    /\ upstream[r] = "aborted"
    /\ loop[r] = "awaitChunk"

\* C7: the output stream has at most one terminal event, exactly one once
\* the read loop is over, and no close or error attempt throws out of start().
C7_OneTerminalEvent ==
  \A r \in Requests :
    /\ Len(termEvents[r]) <= 1
    /\ ~escaped[r]
    /\ loop[r] = "done" => (Len(termEvents[r]) = 1 /\ streamClosed[r])

C7_Witness ==
  \E r \in Requests :
    /\ exitKind[r] = "error"
    /\ termEvents[r] = <<"error">>
    /\ streamClosed[r]

\* C8: POST returns exactly one response per invocation, and a read loop
\* that is over has terminated the stream, with an error when it failed.
C8_OneResult ==
  \A r \in Requests :
    /\ Len(resp[r]) = (IF pc[r] = "returned" THEN 1 ELSE 0)
    /\ (sstate[r] # "none" <=> (resp[r] = <<StreamResponse>>))
    /\ loop[r] = "done" => sstate[r] \in {"closed", "errored"}
    /\ exitKind[r] = "error" => sstate[r] = "errored"

C8_Witness ==
  \E r \in Requests :
    /\ pc[r] = "returned"
    /\ resp[r] = <<Response(500, "Error processing request: ", "socket hang up", FALSE)>>
    /\ upstream[r] = "failed"

\* the body parsed, and its messages member is missing, not an array or empty
MessagesMissingOrEmpty(b) ==
  \/ b.json = "scalar"
  \/ b.json = "object" /\ (b.mtype # "array" \/ b.items = <<>>)

\* C9: a parsed body whose messages member is missing, not an array or an
\* empty array is answered 400 with the 'required and cannot be empty' text;
\* no upstream call is made and the timer is not left pending.
C9_InvalidMessages400 ==
  \A r \in Requests :
    MessagesMissingOrEmpty(body[r]) =>
       /\ resp[r] = <<InvalidBodyResponse>>
       /\ resp[r][1].status = 400
       /\ createCalls[r] = 0
       /\ upstream[r] = "none"
       /\ timer[r] # "pending"

C9_Witness ==
  \E r \in Requests :
    /\ body[r] = Body("object", "array", <<>>)
    /\ resp[r] = <<InvalidBodyResponse>>
    /\ timer[r] = "cleared"

\* C10: a body that is not JSON, or that parses to null, is answered 400.
C10_Malformed400 ==
  \A r \in Requests :
    (body[r].json \in {"invalid", "null"} /\ pc[r] = "returned") =>
       /\ Len(resp[r]) = 1
       /\ resp[r][1].status = 400

\* C11: when create rejects with an upstream API error, the single response
\* is not streamed, its status is the error's status (500 when it has none)
\* and its body carries the error's message text.
C11_UpstreamErrorMapped ==
  \A r \in Requests :
    (caught[r].api /\ upstream[r] = "failed" /\ sstate[r] = "none") =>
       /\ Len(resp[r]) = 1
       /\ ~resp[r][1].streamed
       /\ resp[r][1].status = (IF caught[r].status # 0 THEN caught[r].status ELSE 500)
       /\ caught[r].message # "" => resp[r][1].detail = caught[r].message

\* C12: an error that is neither a validation failure, an abort nor an
\* upstream API error is answered 500 with a body that does not carry the
\* error's message.
C12_InternalErrorGeneric ==
  \A r \in Requests :
    (caught[r].name # "none" /\ ~ParseThrows(body[r]) /\ ~caught[r].api
       /\ ~IsAbort(caught[r])) =>
       /\ Len(resp[r]) = 1
       /\ resp[r][1].status = 500
       /\ resp[r][1].detail # caught[r].message

\* a client message survives the empty-turn filter
survives(m) == m.content # <<>> \/ m.url # <<>>

survivors(items) == SelectSeq(items, survives)

\* sub occurs in s as a contiguous run
Contains(s, sub) ==
  \E i \in 0..(Len(s) - Len(sub)) : SubSeq(s, i + 1, i + Len(sub)) = sub

\* the acknowledgment line that names a file
ackLine(fileName) ==
  <<"[User has attached an image: \"">> \o fileName \o
  <<"\". Please acknowledge this attachment.]">>

C14_AttachmentAcknowledged ==
  \A r \in Requests :
    pc[r] = "normalized" =>
      LET sv == survivors(body[r].items)
          p  == prepared[r]
      IN  Len(p) = Len(sv) + 1 /\
          \A i \in 1..Len(sv) :
            (sv[i].url # <<>> /\ sv[i].name # <<>>) =>
               /\ IsPrefix(trim(sv[i].content), p[i + 1].content)
               /\ Contains(p[i + 1].content, ackLine(sv[i].name))

\* C15: a request for which create was called has a message with non-empty
\* content or an attachment, and its normalised sequence is more than the
\* injected system message.
C15_RelayRequestInvariant ==
  \A r \in Requests :
    createCalls[r] > 0 =>
      /\ \E i \in 1..Len(body[r].items) : survives(body[r].items[i])
      /\ Len(prepared[r]) > 1

\* everything one request owns
ReqState(q) ==
  <<pc[q], timer[q], elapsed[q], deadlineAt[q], abortReason[q], abortCalls[q],
    upstream[q], createCalls[q], body[q], prepared[q], script[q], upIdx[q], cur[q],
    loop[q], exitKind[q], sstate[q], out[q], termEvents[q], streamClosed[q],
    escaped[q], rejectedWrites[q], writes[q], caught[q], resp[q], callerGone[q]>>

\* C16: every step (a deadline firing, a disconnect, an upstream error, ...)
\* belongs to one request and leaves the timer, the abort handle, the
\* upstream call and the output stream of every other request as they were.
C16_RequestsIndependent ==
  [][\E r \in Requests : \A q \in Requests \ {r} : ReqState(q)' = ReqState(q)]_vars

C16_Witness ==
  \E r \in Requests : \E q \in Requests \ {r} :
    /\ abortReason[r] = "API Call Timeout"
    /\ resp[r] = <<TimeoutResponse>>
    /\ upstream[q] = "open"
    /\ sstate[q] = "readable"
    /\ timer[q] = "cleared"
    /\ abortReason[q] = "none"

\* C17: create is called at most once per request, and once the catch block
\* has run the request is answered and nothing is in flight.
C17_NoRetry ==
  \A r \in Requests :
    /\ createCalls[r] <= 1
    /\ caught[r].name # "none" =>
         (pc[r] = "returned" /\ Len(resp[r]) = 1 /\ ~InFlight(r))

C17_Witness ==
  \E r \in Requests :
    /\ caught[r].api
    /\ caught[r].status = 429
    /\ upstream[r] = "failed"
    /\ createCalls[r] = 1
    /\ pc[r] = "returned"

\* the non-empty deltas among the chunks the loop body has dealt with
writtenChunks(r) ==
  { i \in 1..Len(processed(r)) : Truthy(script[r][i]) }

\* C18: no chunk is read after one that carries a finish reason; the number of
\* writes is the number of non-empty deltas processed (an empty or absent
\* delta is never written, the finish chunk's own delta is); after the break
\* the stream is closed, not errored.
C18_FinishStops ==
  \A r \in Requests :
    /\ \A i \in 1..(upIdx[r] - 1) : ~script[r][i].finish
    /\ writes[r] + rejectedWrites[r] = Cardinality(writtenChunks(r))
    /\ exitKind[r] = "break" =>
         /\ script[r][upIdx[r]].finish
         /\ loop[r] = "done"
         /\ streamClosed[r]
         /\ sstate[r] = "closed"

C18_Witness ==
  \E r \in Requests :
    /\ exitKind[r] = "break"
    /\ Len(script[r]) = 2
    /\ upIdx[r] = 1
    /\ Truthy(script[r][1])
    /\ Truthy(script[r][2])
    /\ writes[r] = 1
    /\ termEvents[r] = <<"close">>

\* C19: when the iterator fails with a non-abort error, the only terminal
\* event of the stream is the error, the response stays the 200 streamed one
\* and the bytes written are the deltas processed before, in order.
C19_StreamErrorPropagated ==
  \A r \in Requests :
    exitKind[r] = "error" =>
       /\ termEvents[r] = <<"error">>
       /\ sstate[r] = "errored"
       /\ resp[r] = <<StreamResponse>>
       /\ resp[r][1].status = 200
       /\ out[r] = encode(deltaText(processed(r)))

C19_Witness ==
  \E r \in Requests :
    /\ exitKind[r] = "error"
    /\ out[r] = <<72, 105, 195, 169>>
    /\ termEvents[r] = <<"error">>
    /\ streamClosed[r]

\* C20: once the caller has cancelled the stream, the abort signal is set and
\* the loop makes no write attempt.
C20_NoWriteAfterCancel ==
  \A r \in Requests :
    (\E i \in DOMAIN termEvents[r] : termEvents[r][i] = "cancel") =>
       /\ abortReason[r] # "none"
       /\ rejectedWrites[r] = 0

\* C21: once POST has returned, the timer is not pending (it was cleared, had
\* fired, or was never started); a request that was handed a streamed
\* response has its timer cleared and is never aborted by the timeout.
C21_TimerNotPendingAfterReturn ==
  \A r \in Requests :
    /\ pc[r] = "returned" => timer[r] # "pending"
    /\ sstate[r] # "none" =>
         (timer[r] = "cleared" /\ abortReason[r] # "API Call Timeout")

C21_Witness ==
  \E r \in Requests :
    /\ resp[r] = <<StreamResponse>>
    /\ sstate[r] = "readable"
    /\ timer[r] = "cleared"
    /\ elapsed[r]
    /\ deadlineAt[r] > 0
    /\ abortReason[r] = "none"

\* the request was answered 504
Answered504(r) == \E i \in DOMAIN resp[r] : resp[r][i].status = 504

\* C22: a 504 is returned only to a request whose deadline timer has fired; a
\* request whose stream the caller cancelled is never answered 504, and the
\* abort handle is aborted at most once.
C22_TimeoutOnlyFromTimer ==
  \A r \in Requests :
    /\ Answered504(r) => (timer[r] = "fired" /\ abortReason[r] = "API Call Timeout")
    /\ abortReason[r] = "Client cancelled stream" => ~Answered504(r)
    /\ abortCalls[r] <= 1

\* C23: without the upstream credential no request ever starts the timer,
\* reads its body or calls create, is never aborted, and the response POST
\* returns is the 500 'API key not configured' one.
C23_NoKeyNoEffects ==
  ~apiKey =>
    \A r \in Requests :
      /\ timer[r] = "unset"
      /\ ~elapsed[r]
      /\ body[r] = NoBody
      /\ createCalls[r] = 0
      /\ upstream[r] = "none"
      /\ abortReason[r] = "none"
      /\ sstate[r] = "none"
      /\ pc[r] \in {"received", "returned"}
      /\ pc[r] = "returned" =>
           (resp[r] = <<KeyMissingResponse>> /\ resp[r][1].status = 500)

C23_Witness ==
  /\ ~apiKey
  /\ \E r \in Requests :
       /\ pc[r] = "returned"
       /\ resp[r] = <<KeyMissingResponse>>
       /\ timer[r] = "unset"

====
